---------------------------- MODULE Spec2Model ----------------------------
(***************************************************************************)
(* The products REST API: the router's validation chains (src/router.ts),  *)
(* the handlers and the input-error middleware they are bound to, the      *)
(* product table behind them, and the boot-time connectDB (src/server.ts). *)
(*                                                                         *)
(* JavaScript values are tagged records, JavaScript strings are sequences  *)
(* of one-character strings, so that the validators (isInt, isNumeric,     *)
(* notEmpty, isBoolean, value > 0) are computed on the characters as the   *)
(* library computes them.                                                  *)
(***************************************************************************)
EXTENDS Integers, Sequences, FiniteSets, TLC

VARIABLES
    rows,        \* the product table: id -> row
    nextId,      \* the next id the table's auto-increment assigns
    deleted,     \* ids removed by a successful delete (history)
    req,         \* the request being answered
    res,         \* the response to it
    handlerRan,  \* whether the route's handler ran for req
    before,      \* the table as it was when req arrived
    connPc,      \* where connectDB() is
    authFailed,  \* whether db.authenticate() rejected
    log,         \* what console.log was called with
    running,     \* the process is alive
    inflight     \* the requests whose handlers are between two awaits

vars == <<rows, nextId, deleted, req, res, handlerRan, before,
          connPc, authFailed, log, running, inflight>>

storeVars == <<rows, nextId, deleted>>
bootVars  == <<connPc, authFailed, log, running>>

-----------------------------------------------------------------------------
(* Bounds *)

\* ids the table's auto-increment hands out before creates stop
MaxId == 2

-----------------------------------------------------------------------------
(* JavaScript values *)

Undefined == [t |-> "undefined", n |-> 0, s |-> <<>>, b |-> FALSE]
Num(k)    == [t |-> "number",    n |-> k, s |-> <<>>, b |-> FALSE]
Str(cs)   == [t |-> "string",    n |-> 0, s |-> cs,   b |-> FALSE]
Bool(x)   == [t |-> "boolean",   n |-> 0, s |-> <<>>, b |-> x]

Digits == {"0", "1", "2", "3", "4", "5", "6", "7", "8", "9"}

DigitChar(d) ==
    CASE d = 0 -> "0" [] d = 1 -> "1" [] d = 2 -> "2" [] d = 3 -> "3"
      [] d = 4 -> "4" [] d = 5 -> "5" [] d = 6 -> "6" [] d = 7 -> "7"
      [] d = 8 -> "8" [] d = 9 -> "9"

DigitVal(c) ==
    CASE c = "0" -> 0 [] c = "1" -> 1 [] c = "2" -> 2 [] c = "3" -> 3
      [] c = "4" -> 4 [] c = "5" -> 5 [] c = "6" -> 6 [] c = "7" -> 7
      [] c = "8" -> 8 [] c = "9" -> 9

RECURSIVE NatToStr(_)
NatToStr(k) ==
    IF k < 10 THEN <<DigitChar(k)>>
    ELSE NatToStr(k \div 10) \o <<DigitChar(k % 10)>>

\* String(k) for an integer k
IntToStr(k) == IF k < 0 THEN <<"-">> \o NatToStr(0 - k) ELSE NatToStr(k)

RECURSIVE DigitsToNat(_)
DigitsToNat(cs) ==
    IF cs = <<>> THEN 0
    ELSE 10 * DigitsToNat(SubSeq(cs, 1, Len(cs) - 1)) + DigitVal(cs[Len(cs)])

AllDigits(cs) == \A i \in 1..Len(cs) : cs[i] \in Digits

HasSign(cs) == Len(cs) > 0 /\ cs[1] \in {"+", "-"}

Unsigned(cs) == IF HasSign(cs) THEN SubSeq(cs, 2, Len(cs)) ELSE cs

\* express-validator's toString(value): undefined is '', the rest String(value)
toString(v) ==
    CASE v.t = "undefined" -> <<>>
      [] v.t = "number"    -> IntToStr(v.n)
      [] v.t = "string"    -> v.s
      [] v.t = "boolean"   -> IF v.b THEN <<"t", "r", "u", "e">>
                                     ELSE <<"f", "a", "l", "s", "e">>

Spaces == {" "}

RECURSIVE TrimLeft(_)
TrimLeft(cs) ==
    IF cs # <<>> /\ cs[1] \in Spaces THEN TrimLeft(Tail(cs)) ELSE cs

RECURSIVE TrimRight(_)
TrimRight(cs) ==
    IF cs # <<>> /\ cs[Len(cs)] \in Spaces
    THEN TrimRight(SubSeq(cs, 1, Len(cs) - 1)) ELSE cs

Trim(cs) == TrimRight(TrimLeft(cs))

\* an unsigned decimal literal of JavaScript: digits with at most one point
\* (exponents, hex and Infinity need letters the inputs here do not spell)
IsDecimalLiteral(u) ==
    /\ \A i \in 1..Len(u) : u[i] \in Digits \cup {"."}
    /\ Cardinality({i \in 1..Len(u) : u[i] = "."}) <= 1
    /\ \E i \in 1..Len(u) : u[i] \in Digits

\* value > 0 of JavaScript: the value is converted to a number first
\* (undefined and unparsable text are NaN, '' and blank text are 0, true is 1)
JsGreaterThanZero(v) ==
    CASE v.t = "undefined" -> FALSE
      [] v.t = "number"    -> v.n > 0
      [] v.t = "boolean"   -> v.b
      [] v.t = "string"    ->
            LET t == Trim(v.s)
                u == Unsigned(t)
            IN /\ IsDecimalLiteral(u)
               /\ ~(HasSign(t) /\ t[1] = "-")
               /\ \E i \in 1..Len(u) : u[i] \in Digits \ {"0"}

-----------------------------------------------------------------------------
(* The validators of validator.js the chains use, on the stringified value *)

\* /^[-+]?[0-9]+$/ (leading zeroes are allowed by default)
isInt(cs) == Len(Unsigned(cs)) > 0 /\ AllDigits(Unsigned(cs))

\* /^[+-]?([0-9]*[.])?[0-9]+$/
isNumeric(cs) ==
    LET u == Unsigned(cs)
    IN \/ Len(u) > 0 /\ AllDigits(u)
       \/ \E k \in 1..Len(u) :
             /\ u[k] = "."
             /\ AllDigits(SubSeq(u, 1, k - 1))
             /\ k < Len(u)
             /\ AllDigits(SubSeq(u, k + 1, Len(u)))

\* isEmpty without ignore_whitespace: only the string of length 0
isEmpty(cs) == Len(cs) = 0

\* strict isBoolean: 'true', 'false', '1', '0'
isBoolean(cs) ==
    cs \in {<<"t", "r", "u", "e">>, <<"f", "a", "l", "s", "e">>, <<"1">>, <<"0">>}

-----------------------------------------------------------------------------
(* Requests and responses *)

\* the keys a JSON body may carry here; `avaliability` is the key the
\* repository's tests send
Body(name, price, availability, avaliability) ==
    [name |-> name, price |-> price,
     availability |-> availability, avaliability |-> avaliability]

EmptyBody == Body(Undefined, Undefined, Undefined, Undefined)

Request(method, id, body) == [method |-> method, id |-> id, body |-> body]

NoReq == Request("none", <<>>, EmptyBody)

NoRow == [id |-> 0, name |-> <<>>, price |-> 0, availability |-> FALSE]

\* a response: the status and the JSON body's keys; kind names the key
\* present: errors (a list), error (a message) or data (a row, the list of
\* rows, or a message)
Response(status, kind, errors, error, row, list, msg) ==
    [status |-> status, kind |-> kind, errors |-> errors, error |-> error,
     row |-> row, list |-> list, msg |-> msg]

NoRes == Response(0, "none", <<>>, "", NoRow, {}, "")

BadRequest(errors) == Response(400, "errors", errors, "", NoRow, {}, "")
NotFound           == Response(404, "error", <<>>, "Product not founded", NoRow, {}, "")
DataRow(status, r) == Response(status, "data", <<>>, "", r, {}, "")
DataList(rs)       == Response(200, "data", <<>>, "", NoRow, rs, "")
DataMsg(m)         == Response(200, "data", <<>>, "", NoRow, {}, m)

-----------------------------------------------------------------------------
(* The validation chains of the router *)

Check(kind, msg) == [kind |-> kind, msg |-> msg]

Field(location, path, checks) ==
    [location |-> location, path |-> path, checks |-> checks]

\* the get-by-id chain copied from the other routes, message and all
GetByIdChainCopied ==
    << Field("params", "id", << Check("isInt", "Invalid ID") >>) >>

\* param('id').isInt().withMessage('ID invalid')
GetByIdChain ==
    << Field("params", "id", << Check("isInt", "ID invalid") >>) >>

NameField ==
    Field("body", "name", << Check("notEmpty", "The name can't be empty") >>)

\* the price checks without notEmpty
PriceFieldNoEmptyCheck ==
    Field("body", "price",
          << Check("isNumeric", "Number not valid"),
             Check("custom", "The price must be greater than 0") >>)

PriceField ==
    Field("body", "price",
          << Check("isNumeric", "Number not valid"),
             Check("notEmpty", "The price can't be empty"),
             Check("custom", "The price must be greater than 0") >>)

IdField == Field("params", "id", << Check("isInt", "Invalid ID") >>)

AvailabilityField ==
    Field("body", "availability",
          << Check("isBoolean", "Value for availability not valid") >>)

\* the create chain with the availability check of the full update
PostChainWithAvailability == << NameField, PriceField, AvailabilityField >>

PostChain == << NameField, PriceField >>

\* the full-update chain with the price checks declared before the name's
PutChainPriceFirst == << IdField, PriceField, NameField, AvailabilityField >>

\* the full-update chain without the price checks
PutChainNoPrice == << IdField, NameField, AvailabilityField >>

PutChain == << IdField, NameField, PriceField, AvailabilityField >>

PatchChain == << IdField >>

DeleteChain == << IdField >>

\* the value a field's checks read: a path parameter is always text
FieldValue(r, f) ==
    IF f.location = "params" THEN Str(r.id) ELSE r.body[f.path]

\* a standard validator reads the stringified value, a custom one the value
Passes(kind, v) ==
    CASE kind = "isInt"     -> isInt(toString(v))
      [] kind = "isNumeric" -> isNumeric(toString(v))
      [] kind = "notEmpty"  -> ~isEmpty(toString(v))
      [] kind = "isBoolean" -> isBoolean(toString(v))
      [] kind = "custom"    -> JsGreaterThanZero(v)

Error(f, c) == [path |-> f.path, msg |-> c.msg]

RECURSIVE Failures(_, _, _)
\* every failing check of one field, in the order the checks are chained
Failures(f, v, i) ==
    IF i > Len(f.checks) THEN <<>>
    ELSE (IF Passes(f.checks[i].kind, v) THEN <<>>
          ELSE << Error(f, f.checks[i]) >>) \o Failures(f, v, i + 1)

RECURSIVE ValidationErrors(_, _, _)
\* validationResult(req).array(): the failures of every field of the chain,
\* fields in the order the route declares them
ValidationErrors(chain, r, k) ==
    IF k > Len(chain) THEN <<>>
    ELSE Failures(chain[k], FieldValue(r, chain[k]), 1)
            \o ValidationErrors(chain, r, k + 1)

-----------------------------------------------------------------------------
(* Inputs *)

Licuadora == <<"L", "i", "c", "u", "a", "d", "o", "r", "a">>
Mouse     == <<"M", "o", "u", "s", "e", " ", "-", " ", "T", "e", "s", "t", "i", "n", "g">>
Hola      == <<"H", "o", "l", "a">>
Blank     == <<" ">>

NotValidUrl == <<"n", "o", "t", "-", "v", "a", "l", "i", "d", "-", "u", "r", "l">>

\* the id no row ever has
MissingId == 2000

\* path ids: every id the table can assign, one it cannot, and text
Ids == {IntToStr(i) : i \in 1..MaxId} \cup {IntToStr(MissingId), NotValidUrl}

\* the same with an id written with a leading zero
AllIds == Ids \cup {<<"0", "1">>}

\* bodies answered one after the other: none, the create of the tests, and a
\* full update that passes
Bodies ==
    { EmptyBody,
      Body(Str(Mouse), Num(50), Undefined, Undefined),
      Body(Str(Licuadora), Num(300), Bool(FALSE), Undefined) }

Names  == {Undefined, Str(<<>>), Str(Blank), Str(Licuadora)}
Prices == {Undefined, Num(0), Num(0 - 5), Num(300), Str(<<>>), Str(Hola),
           Str(<<"5", "0">>)}
Availabilities ==
    {Undefined, Bool(TRUE), Bool(FALSE), Str(<<"f", "a", "l", "s", "e">>),
     Str(<<"y", "e", "s">>)}

\* every combination of the values above, the key of the tests only on
\* bodies without the key the router reads
AllBodies ==
    {Body(n, p, a, Undefined) : n \in Names, p \in Prices, a \in Availabilities}
        \cup {Body(n, p, Undefined, Bool(TRUE)) : n \in Names, p \in Prices}

-----------------------------------------------------------------------------
(* The product table and the handlers *)

\* the integer a column of the table reads from text that isInt accepts
ParseInt(cs) ==
    LET t == Trim(cs)
    IN IF HasSign(t) /\ t[1] = "-" THEN 0 - DigitsToNat(Unsigned(t))
       ELSE DigitsToNat(Unsigned(t))

\* what the table keeps of a submitted name, price and availability
StoredText(v)    == toString(v)
StoredNumber(v)  == IF v.t = "number" THEN v.n ELSE ParseInt(toString(v))
StoredBoolean(v) ==
    IF v.t = "boolean" THEN v.b
    ELSE toString(v) \in {<<"t", "r", "u", "e">>, <<"1">>}

Product(id, name, price, availability) ==
    [id |-> id, name |-> name, price |-> price, availability |-> availability]

\* what a handler leaves: the response and the table
Outcome(response, table, next, gone) ==
    [res |-> response, rows |-> table, nextId |-> next, deleted |-> gone]

Without(table, id) == [i \in DOMAIN table \ {id} |-> table[i]]

getProduct(r) ==
    Outcome(DataList({rows[i] : i \in DOMAIN rows}), rows, nextId, deleted)

getProductById(r) ==
    LET id == ParseInt(r.id)
    IN IF id \notin DOMAIN rows THEN Outcome(NotFound, rows, nextId, deleted)
       ELSE Outcome(DataRow(200, rows[id]), rows, nextId, deleted)

createProduct(r) ==
    LET p == Product(nextId, StoredText(r.body.name),
                     StoredNumber(r.body.price), TRUE)
    IN Outcome(DataRow(201, p), rows @@ (nextId :> p), nextId + 1, deleted)

updateProduct(r) ==
    LET id == ParseInt(r.id)
        p  == Product(id, StoredText(r.body.name), StoredNumber(r.body.price),
                      StoredBoolean(r.body.availability))
    IN IF id \notin DOMAIN rows THEN Outcome(NotFound, rows, nextId, deleted)
       ELSE Outcome(DataRow(200, p), [rows EXCEPT ![id] = p], nextId, deleted)

updateAvailability(r) ==
    LET id == ParseInt(r.id)
    IN IF id \notin DOMAIN rows THEN Outcome(NotFound, rows, nextId, deleted)
       ELSE LET p == [rows[id] EXCEPT !.availability = ~rows[id].availability]
            IN Outcome(DataRow(200, p), [rows EXCEPT ![id] = p], nextId, deleted)

deleteProduct(r) ==
    LET id == ParseInt(r.id)
    IN IF id \notin DOMAIN rows THEN Outcome(NotFound, rows, nextId, deleted)
       ELSE Outcome(DataMsg("Product deleted"), Without(rows, id), nextId,
                    deleted \cup {id})

Handle(handler, r) ==
    CASE handler = "getProduct"         -> getProduct(r)
      [] handler = "getProductById"     -> getProductById(r)
      [] handler = "createProduct"      -> createProduct(r)
      [] handler = "updateProduct"      -> updateProduct(r)
      [] handler = "updateAvailability" -> updateAvailability(r)
      [] handler = "deleteProduct"      -> deleteProduct(r)

-----------------------------------------------------------------------------
(* The route table: method, validation chain, handler *)

Route(method, path, chain, handler) ==
    [method |-> method, path |-> path, chain |-> chain, handler |-> handler]

ListRoute    == Route("GET",    "/",    <<>>,         "getProduct")
GetByIdRoute == Route("GET",    "/:id", GetByIdChain, "getProductById")
PostRoute    == Route("POST",   "/",    PostChain,    "createProduct")
PutRoute     == Route("PUT",    "/:id", PutChain,     "updateProduct")
\* patch bound to the full-update handler
PatchRouteToUpdate == Route("PATCH", "/:id", PatchChain, "updateProduct")
PatchRoute   == Route("PATCH",  "/:id", PatchChain,   "updateAvailability")
\* delete bound to the get-by-id handler
DeleteRouteToGet == Route("DELETE", "/:id", DeleteChain, "getProductById")
DeleteRoute  == Route("DELETE", "/:id", DeleteChain,  "deleteProduct")

\* handleInputErrors, then the handler: a request with failed checks is
\* answered 400 with the list of them and goes no further
Serve(route, r) ==
    LET errors == ValidationErrors(route.chain, r, 1)
        out    == Handle(route.handler, r)
    IN /\ req' = r
       /\ before' = rows
       /\ IF errors # <<>>
          THEN /\ res' = BadRequest(errors)
               /\ handlerRan' = FALSE
               /\ UNCHANGED storeVars
          ELSE /\ res' = out.res
               /\ handlerRan' = TRUE
               /\ rows' = out.rows
               /\ nextId' = out.nextId
               /\ deleted' = out.deleted
       /\ UNCHANGED bootVars
       /\ UNCHANGED inflight

-----------------------------------------------------------------------------
(* Requests in flight: a handler awaits find-by-id, then awaits save or     *)
(* destroy, and other requests are served while it waits.                  *)

\* requests the server has in flight at once
MaxClients == 2

Clients == 1..MaxClients

\* where a request is: not sent, before its find-by-id, before its save or
\* destroy, answered
InFlight(pc, r, found, response) ==
    [pc |-> pc, req |-> r, found |-> found, res |-> response]

Idle == InFlight("idle", NoReq, NoRow, NoRes)

NoneInFlight == [c \in Clients |-> Idle]

-----------------------------------------------------------------------------
(* connectDB *)

ConnectionError == "There was an error connecting to the database..."

\* a catch block that logs and throws the error on
connectDBCatchRethrows ==
    [log |-> Append(log, ConnectionError), connPc |-> "rejected", running |-> FALSE]

\* the catch block of connectDB: the message is logged, the promise resolves
connectDBCatch ==
    [log |-> Append(log, ConnectionError), connPc |-> "resolved", running |-> TRUE]

\* await db.authenticate() resolves; db.sync() is started and not awaited
AuthenticateResolves ==
    /\ connPc = "authenticate"
    /\ connPc' = "resolved"
    /\ UNCHANGED <<authFailed, log, running>>
    /\ UNCHANGED <<rows, nextId, deleted, req, res, handlerRan, before, inflight>>

\* await db.authenticate() rejects: control passes to the catch block
AuthenticateRejects ==
    /\ connPc = "authenticate"
    /\ authFailed' = TRUE
    /\ log' = connectDBCatch.log
    /\ connPc' = connectDBCatch.connPc
    /\ running' = connectDBCatch.running
    /\ UNCHANGED <<rows, nextId, deleted, req, res, handlerRan, before, inflight>>

-----------------------------------------------------------------------------
(* The operations: one request each *)

List ==
    /\ running
    /\ Serve(ListRoute, Request("GET", <<>>, EmptyBody))

GetById(ids) ==
    /\ running
    /\ \E id \in ids : Serve(GetByIdRoute, Request("GET", id, EmptyBody))

\* creates stop once the table has assigned MaxId ids
Create(bodies) ==
    /\ running
    /\ \E b \in bodies :
          /\ ValidationErrors(PostRoute.chain, Request("POST", <<>>, b), 1) = <<>>
                => nextId <= MaxId
          /\ Serve(PostRoute, Request("POST", <<>>, b))

Update(ids, bodies) ==
    /\ running
    /\ \E id \in ids, b \in bodies : Serve(PutRoute, Request("PUT", id, b))

Patch(ids) ==
    /\ running
    /\ \E id \in ids : Serve(PatchRoute, Request("PATCH", id, EmptyBody))

Delete(ids) ==
    /\ running
    /\ \E id \in ids : Serve(DeleteRoute, Request("DELETE", id, EmptyBody))

-----------------------------------------------------------------------------
(* The server from boot on: connectDB() has been called and awaits         *)
(* db.authenticate(); requests are answered one after the other.           *)

Init ==
    /\ rows = <<>>
    /\ nextId = 1
    /\ deleted = {}
    /\ req = NoReq
    /\ res = NoRes
    /\ handlerRan = FALSE
    /\ before = <<>>
    /\ connPc = "authenticate"
    /\ authFailed = FALSE
    /\ log = <<>>
    /\ running = TRUE
    /\ inflight = NoneInFlight

Next ==
    \/ AuthenticateResolves
    \/ AuthenticateRejects
    \/ List
    \/ GetById(Ids)
    \/ Create(Bodies)
    \/ Update(Ids, Bodies)
    \/ Patch(Ids)
    \/ Delete(Ids)

Spec == Init /\ [][Next]_vars

-----------------------------------------------------------------------------
(* One request of every shape: the server has booted and the table holds   *)
(* what earlier creates left; one request is drawn from every combination  *)
(* of the input values and answered.                                       *)

Seeded(k) ==
    [i \in 1..k |-> Product(i, Mouse, 50, TRUE)]

InitInputs ==
    /\ \E k \in 0..MaxId : rows = Seeded(k) /\ nextId = k + 1 /\ before = Seeded(k)
    /\ deleted = {}
    /\ req = NoReq
    /\ res = NoRes
    /\ handlerRan = FALSE
    /\ connPc = "resolved"
    /\ authFailed = FALSE
    /\ log = <<>>
    /\ running = TRUE
    /\ inflight = NoneInFlight

\* no request has been answered yet
Fresh == req = NoReq

NextInputs ==
    \/ Fresh /\ List
    \/ Fresh /\ GetById(AllIds)
    \/ Fresh /\ Create(AllBodies)
    \/ Fresh /\ Update(AllIds, AllBodies)
    \/ Fresh /\ Patch(AllIds)
    \/ Fresh /\ Delete(AllIds)

SpecInputs == InitInputs /\ [][NextInputs]_vars

-----------------------------------------------------------------------------
(* Requests served concurrently: the server has booted, the table holds    *)
(* what earlier creates left, and each client sends one request on a       *)
(* path id. A handler runs up to its await of find-by-id, and from there   *)
(* up to its await of save or destroy; between the two, steps of the       *)
(* other requests may run.                                                 *)

RouteOf(r) ==
    CASE r.method = "GET"    -> GetByIdRoute
      [] r.method = "PUT"    -> PutRoute
      [] r.method = "PATCH"  -> PatchRoute
      [] r.method = "DELETE" -> DeleteRoute

\* save: an UPDATE of the columns the handler changed on the instance it
\* read, on the row of that id; it changes nothing when the row is gone
Save(table, found, p) ==
    IF found.id \notin DOMAIN table THEN table
    ELSE [table EXCEPT ![found.id] =
            [f \in DOMAIN p |-> IF p[f] # found[f] THEN p[f] ELSE table[found.id][f]]]

\* the second half of a handler, on the instance its find-by-id returned:
\* the response and the table it leaves
AfterFind(handler, r, found, table, gone) ==
    CASE handler = "getProductById" ->
            [res |-> DataRow(200, found), rows |-> table, deleted |-> gone]
      [] handler = "updateProduct" ->
            LET p == Product(found.id, StoredText(r.body.name),
                             StoredNumber(r.body.price),
                             StoredBoolean(r.body.availability))
            IN [res |-> DataRow(200, p), rows |-> Save(table, found, p),
                deleted |-> gone]
      [] handler = "updateAvailability" ->
            LET p == [found EXCEPT !.availability = ~found.availability]
            IN [res |-> DataRow(200, p), rows |-> Save(table, found, p),
                deleted |-> gone]
      [] handler = "deleteProduct" ->
            [res |-> DataMsg("Product deleted"),
             rows |-> IF found.id \in DOMAIN table THEN Without(table, found.id)
                      ELSE table,
             deleted |-> gone \cup {found.id}]

\* the requests the clients send: on the first row and on the missing id
ConcurrentIds == {IntToStr(1), IntToStr(MissingId)}

ConcurrentRequests ==
    {Request(m, id, EmptyBody) : m \in {"GET", "PATCH", "DELETE"}, id \in ConcurrentIds}
        \cup {Request("PUT", id, b) : id \in ConcurrentIds, b \in Bodies}

\* handleInputErrors: a request with failed checks is answered at once, the
\* others enter their handler
Accept(c) ==
    /\ running
    /\ inflight[c].pc = "idle"
    /\ \E r \in ConcurrentRequests :
          LET errors == ValidationErrors(RouteOf(r).chain, r, 1)
          IN inflight' = [inflight EXCEPT ![c] =
                IF errors # <<>> THEN InFlight("done", r, NoRow, BadRequest(errors))
                ELSE InFlight("find", r, NoRow, NoRes)]
    /\ UNCHANGED <<storeVars, req, res, handlerRan, before, bootVars>>

\* await find-by-id: 404 when there is no row; get-by-id answers with the
\* row, the other handlers go on to change it
FindByPk(c) ==
    LET r  == inflight[c].req
        id == ParseInt(r.id)
    IN /\ running
       /\ inflight[c].pc = "find"
       /\ inflight' = [inflight EXCEPT ![c] =
            IF id \notin DOMAIN rows THEN InFlight("done", r, NoRow, NotFound)
            ELSE IF RouteOf(r).handler = "getProductById"
                 THEN InFlight("done", r, rows[id],
                               AfterFind("getProductById", r, rows[id], rows, deleted).res)
                 ELSE InFlight("write", r, rows[id], NoRes)]
       /\ UNCHANGED <<storeVars, req, res, handlerRan, before, bootVars>>

\* await save / destroy, then the response
SaveOrDestroy(c) ==
    LET r   == inflight[c].req
        out == AfterFind(RouteOf(r).handler, r, inflight[c].found, rows, deleted)
    IN /\ running
       /\ inflight[c].pc = "write"
       /\ rows' = out.rows
       /\ deleted' = out.deleted
       /\ inflight' = [inflight EXCEPT ![c] =
                          InFlight("done", r, inflight[c].found, out.res)]
       /\ UNCHANGED <<nextId, req, res, handlerRan, before, bootVars>>

NextConcurrent ==
    \E c \in Clients :
        \/ Accept(c)
        \/ FindByPk(c)
        \/ SaveOrDestroy(c)

SpecConcurrent == InitInputs /\ [][NextConcurrent]_vars

-----------------------------------------------------------------------------
(* The declared rules, read off the request itself *)

True  == <<"t", "r", "u", "e">>
False == <<"f", "a", "l", "s", "e">>

IsListRequest(r) == r.method = "GET" /\ r.id = <<>>

\* the path id is not an integer
IdFails(r) == ~isInt(r.id)

\* the name is missing or ''
NameFails(r) == r.body.name.t = "undefined" \/ r.body.name = Str(<<>>)

PriceNotNumeric(r)  == ~isNumeric(toString(r.body.price))
PriceEmpty(r)       == r.body.price.t = "undefined" \/ r.body.price = Str(<<>>)
PriceNotPositive(r) == ~JsGreaterThanZero(r.body.price)

\* the availability is none of true, false, 'true', 'false', 1, 0, '1', '0'
AvailabilityFails(r) ==
    LET a == r.body.availability
    IN ~(\/ a.t = "boolean"
         \/ a.t = "number" /\ a.n \in {0, 1}
         \/ a.t = "string" /\ a.s \in {True, False, <<"1">>, <<"0">>})

\* the messages of the rules a request breaks, in the order the routes
\* declare them: id, name, price numeric, price empty, price > 0, availability
Broken(r) ==
    (IF r.method # "POST" /\ ~IsListRequest(r) /\ IdFails(r)
        THEN << IF r.method = "GET" THEN "ID invalid" ELSE "Invalid ID" >> ELSE <<>>)
    \o (IF r.method \in {"POST", "PUT"} /\ NameFails(r)
        THEN << "The name can't be empty" >> ELSE <<>>)
    \o (IF r.method \in {"POST", "PUT"} /\ PriceNotNumeric(r)
        THEN << "Number not valid" >> ELSE <<>>)
    \o (IF r.method \in {"POST", "PUT"} /\ PriceEmpty(r)
        THEN << "The price can't be empty" >> ELSE <<>>)
    \o (IF r.method \in {"POST", "PUT"} /\ PriceNotPositive(r)
        THEN << "The price must be greater than 0" >> ELSE <<>>)
    \o (IF r.method = "PUT" /\ AvailabilityFails(r)
        THEN << "Value for availability not valid" >> ELSE <<>>)

Messages(errors) == [i \in 1..Len(errors) |-> errors[i].msg]

\* the row a path id names in a table, when it names one
Targets(r, table) == isInt(r.id) /\ ParseInt(r.id) \in DOMAIN table

Answered == req # NoReq

-----------------------------------------------------------------------------
(* C1: on every route with a validation chain, a request that breaks a     *)
(* declared rule is answered 400 with the list of errors, its handler      *)
(* never runs and the table is unchanged, whether or not the id it names   *)
(* exists: a full update with an invalid body to a missing id is 400,      *)
(* never 404.                                                              *)

\* C1: a request that breaks a declared rule is answered 400 with errors,
\* its handler has not run and the table is as it was
C1_InvalidIsRejected ==
    (Answered /\ Broken(req) # <<>>)
        => /\ res.status = 400
           /\ res.kind = "errors"
           /\ Len(res.errors) >= 1
           /\ ~handlerRan
           /\ rows = before

C1_Witness ==
    /\ req.method = "PUT"
    /\ isInt(req.id)
    /\ ParseInt(req.id) = MissingId
    /\ req.body.price = Num(0)
    /\ ~NameFails(req) /\ ~AvailabilityFails(req)
    /\ res.status = 400

-----------------------------------------------------------------------------
(* C2: a create reports one error per broken rule: 4 for a body with       *)
(* neither name nor price, 1 for a name and price 0, 2 for a name and a    *)
(* price that is text JavaScript reads as no number; each time the status  *)
(* is 400 and no row is created.                                           *)

\* text that Number() turns into NaN
IsNaNText(v) ==
    /\ v.t = "string"
    /\ Trim(v.s) # <<>>
    /\ ~IsDecimalLiteral(Unsigned(Trim(v.s)))

HasName(r) == r.body.name.t = "string" /\ r.body.name.s # <<>>

Rejected(n) ==
    /\ res.status = 400
    /\ res.kind = "errors"
    /\ Len(res.errors) = n
    /\ rows = before

\* C2: a rejected create lists 4, 1 or 2 errors in the three cases named
C2_CreateErrorCounts ==
    (Answered /\ req.method = "POST") =>
        /\ (req.body.name = Undefined /\ req.body.price = Undefined) => Rejected(4)
        /\ (HasName(req) /\ req.body.price = Num(0))
              => Rejected(1) /\ res.errors[1].msg = "The price must be greater than 0"
        /\ (HasName(req) /\ IsNaNText(req.body.price)) => Rejected(2)

C2_Witness ==
    /\ req.method = "POST"
    /\ HasName(req)
    /\ req.body.price = Str(Hola)
    /\ Len(res.errors) = 2

-----------------------------------------------------------------------------
(* C3: a full update with an integer id lists one error per broken rule,   *)
(* in the order the rules are declared (name, price numeric, price empty,  *)
(* price > 0, availability): 5 for a body with no keys, and only 'The      *)
(* price must be greater than 0' for a name, a boolean availability and    *)
(* price 0; the response carries no data and the row is unchanged.         *)

NoData ==
    /\ res.kind = "errors"
    /\ res.row = NoRow
    /\ res.status = 400
    /\ rows = before

\* C3: a full update lists exactly the broken rules, in declaration order
C3_UpdateErrorList ==
    (Answered /\ req.method = "PUT" /\ isInt(req.id)) =>
        /\ Messages(res.errors) = Broken(req)
        /\ Broken(req) # <<>> => NoData
        /\ req.body = EmptyBody => Len(res.errors) = 5 /\ NoData
        /\ (HasName(req) /\ req.body.availability.t = "boolean"
                /\ req.body.price = Num(0))
              => /\ Messages(res.errors) = << "The price must be greater than 0" >>
                 /\ NoData

C3_Witness ==
    /\ req.method = "PUT"
    /\ Targets(req, before)
    /\ req.body = EmptyBody
    /\ Len(res.errors) = 5
    /\ res.errors[1].path = "name"
    /\ res.errors[5].path = "availability"

-----------------------------------------------------------------------------
(* C4: a full update whose body has a name, a price and the key            *)
(* `avaliability` but no `availability` raises no availability error: a    *)
(* non-integer id gives 400 with the one error 'Invalid ID', price 0 gives *)
(* 400 with the one error 'The price must be greater than 0', price 300    *)
(* gives 404 'Product not founded' for a missing id and 200 with data for  *)
(* an existing one.                                                        *)

TestUpdateBody(r) ==
    /\ r.method = "PUT"
    /\ HasName(r)
    /\ r.body.availability = Undefined
    /\ r.body.avaliability = Bool(TRUE)

\* C4: the claim as stated, for bodies that carry `avaliability` only
C4_MisspelledKeyRaisesNoError ==
    (Answered /\ TestUpdateBody(req)) =>
        /\ (~isInt(req.id) /\ req.body.price = Num(300))
              => res.status = 400 /\ Messages(res.errors) = << "Invalid ID" >>
        /\ (isInt(req.id) /\ req.body.price = Num(0))
              => /\ res.status = 400
                 /\ Messages(res.errors) = << "The price must be greater than 0" >>
        /\ (isInt(req.id) /\ req.body.price = Num(300))
              => IF Targets(req, before)
                 THEN res.status = 200 /\ res.kind = "data"
                 ELSE res = NotFound

-----------------------------------------------------------------------------
(* C9: whatever creates, full updates, patches and deletes the rules let   *)
(* through, every stored product has a price > 0 and a name that is        *)
(* neither empty nor blank, no two rows share an id and no row's id        *)
(* changes.                                                                *)

\* C9: the claim as stated, of every stored row
C9_StoredRowsAreValid ==
    \A id \in DOMAIN rows :
        /\ rows[id].price > 0
        /\ Trim(rows[id].name) # <<>>
        /\ rows[id].id = id
        /\ id \in DOMAIN before => before[id].id = rows[id].id

-----------------------------------------------------------------------------
(* C5: get-by-id with a non-integer id returns 400 with the one error      *)
(* 'ID invalid' and never reaches the lookup; with an integer id of no     *)
(* stored row it returns 404 'Product not founded'; with the id of a       *)
(* stored row it returns 200 with that row as data; the table is unchanged *)
(* in all three cases.                                                     *)

\* C5: the answer of get-by-id in its three cases
C5_GetById ==
    (Answered /\ req.method = "GET" /\ ~IsListRequest(req)) =>
        /\ rows = before
        /\ IF ~isInt(req.id)
           THEN /\ res = BadRequest(<< [path |-> "id", msg |-> "ID invalid"] >>)
                /\ ~handlerRan
           ELSE IF ~Targets(req, before)
           THEN res = NotFound
           ELSE /\ res.status = 200
                /\ res.kind = "data"
                /\ res.row = before[ParseInt(req.id)]

C5_Witness ==
    /\ req.method = "GET"
    /\ Targets(req, before)
    /\ res.status = 200
    /\ res.row.id = ParseInt(req.id)
    /\ res.row.name = Licuadora

-----------------------------------------------------------------------------
(* C6: a patch on an existing row sets its availability to the negation    *)
(* and leaves its id, name and price and every other row as they were, so  *)
(* a second patch right after the first restores the table; a patch on a   *)
(* missing id returns 404 'Product not founded' with no data and changes   *)
(* nothing.                                                                *)

\* a step that answers a request (the others are connectDB's)
RequestStep == UNCHANGED bootVars

Flipped(table, id) ==
    [table EXCEPT ![id] = Product(table[id].id, table[id].name, table[id].price,
                                  ~table[id].availability)]

C6_PatchStep ==
    (RequestStep /\ req'.method = "PATCH" /\ isInt(req'.id)) =>
        IF Targets(req', rows)
        THEN /\ res'.status = 200
             /\ res'.kind = "data"
             /\ rows' = Flipped(rows, ParseInt(req'.id))
             /\ res'.row = rows'[ParseInt(req'.id)]
             /\ (req.method = "PATCH" /\ req.id = req'.id /\ res.status = 200)
                   => rows' = before
        ELSE /\ res' = NotFound
             /\ rows' = rows

\* C6: every step that answers a patch flips the availability or is a 404,
\* and the second of two patches in a row restores the table
C6_PatchFlips == [][C6_PatchStep]_vars

C6_Witness ==
    /\ req.method = "PATCH"
    /\ res.status = 200
    /\ Targets(req, before)
    /\ ~before[ParseInt(req.id)].availability
    /\ rows[ParseInt(req.id)].availability
    /\ Cardinality(DOMAIN rows) = 2

-----------------------------------------------------------------------------
(* C7: a delete on an existing id returns 200 with data 'Product deleted'  *)
(* and removes that row and no other; a delete on a missing id returns     *)
(* 404 'Product not founded' and changes nothing; once an id is deleted,   *)
(* every later request on it is answered as the claim says.                *)

\* the request names an id that was deleted before it arrived
OnDeletedId ==
    /\ Answered
    /\ ~IsListRequest(req)
    /\ req.method # "POST"
    /\ isInt(req.id)
    /\ ParseInt(req.id) \in deleted
    /\ ParseInt(req.id) \notin DOMAIN before

\* C7 (both forms): what a delete answers and does to the table
C7_DeleteItself ==
    (Answered /\ req.method = "DELETE" /\ isInt(req.id)) =>
        IF Targets(req, before)
        THEN /\ res = DataMsg("Product deleted")
             /\ rows = Without(before, ParseInt(req.id))
             /\ ParseInt(req.id) \in deleted
        ELSE /\ res = NotFound
             /\ rows = before

\* C7 as claimed: every get, update, patch or delete on a deleted id is 404
C7_DeletedIsAlways404 ==
    /\ C7_DeleteItself
    /\ OnDeletedId => res.status = 404

\* C7 as amended: a full update is 404 only when its body passes validation,
\* and 400 when it does not
C7_DeletedIs404OnceValid ==
    /\ C7_DeleteItself
    /\ deleted \cap DOMAIN rows = {}
    /\ OnDeletedId =>
          /\ Broken(req) = <<>> => res = NotFound
          /\ Broken(req) # <<>> => req.method = "PUT" /\ res.status = 400
          /\ rows = before

C7_Witness ==
    /\ OnDeletedId
    /\ req.method = "GET"
    /\ res.status = 404
    /\ DOMAIN rows # {}

-----------------------------------------------------------------------------
(* C8: a create with a valid name and price returns 201 with a row that    *)
(* carries a new id, the submitted name and price and availability true;   *)
(* a get-by-id on that id issued next returns 200 with the same row, and   *)
(* the list then holds that row (and nothing else when the table was       *)
(* empty before the create).                                               *)

C8_Created ==
    (Answered /\ req.method = "POST" /\ Broken(req) = <<>>) =>
        /\ res.status = 201
        /\ res.kind = "data"
        /\ res.row.id \notin DOMAIN before \cup deleted
        /\ req.body.name.t = "string" => res.row.name = req.body.name.s
        /\ req.body.price.t = "number" => res.row.price = req.body.price.n
        /\ res.row.availability = TRUE
        /\ rows = before @@ (res.row.id :> res.row)

C8_NextStep ==
    (RequestStep /\ req.method = "POST" /\ res.status = 201) =>
        /\ (req'.method = "GET" /\ req'.id = IntToStr(res.row.id))
              => res'.status = 200 /\ res'.kind = "data" /\ res'.row = res.row
        /\ IsListRequest(req')
              => /\ res'.status = 200
                 /\ res.row \in res'.list
                 /\ before = <<>> => res'.list = {res.row}

\* after the get that follows a create, the list still holds the row
C8_ListAfterGet ==
    (RequestStep /\ req.method = "GET" /\ ~IsListRequest(req) /\ res.status = 200
        /\ IsListRequest(req'))
        => res.row \in res'.list

\* C8: what a valid create answers, and what the get and the list issued
\* next answer
C8_RoundTrip == [](C8_Created) /\ [][C8_NextStep /\ C8_ListAfterGet]_vars

C8_Witness ==
    /\ req.method = "GET"
    /\ res.status = 200
    /\ res.row.id = nextId - 1
    /\ res.row = Product(1, Mouse, 50, TRUE)
    /\ rows = (1 :> res.row)

-----------------------------------------------------------------------------
(* C10: connectDB never throws or rejects: when db.authenticate() fails    *)
(* the failure is caught, 'There was an error connecting to the            *)
(* database...' is logged, and the server keeps running and answers        *)
(* requests.                                                               *)

\* C10: connectDB only ever awaits or has resolved; after a failed
\* authenticate it has resolved, the message is logged, the process runs and
\* a request can be answered
C10_ConnectDBNeverRejects ==
    /\ connPc \in {"authenticate", "resolved"}
    /\ authFailed =>
          /\ connPc = "resolved"
          /\ log = << ConnectionError >>
          /\ running
          /\ ENABLED List

C10_Witness ==
    /\ authFailed
    /\ connPc = "resolved"
    /\ req.method = "POST"
    /\ res.status = 201
    /\ handlerRan

-----------------------------------------------------------------------------
(* C11: under every interleaving of concurrent requests on one row, the    *)
(* final rows and the responses are those of some sequential order of the  *)
(* same requests; two concurrent patches leave availability at its         *)
(* original value; a patch or update concurrent with a delete never        *)
(* re-creates, or reports success on, a row already removed.               *)

\* the whole handler run at once on a table: what a sequential order gives
Sequential(r, table, gone) ==
    LET errors == ValidationErrors(RouteOf(r).chain, r, 1)
        id     == ParseInt(r.id)
    IN IF errors # <<>>
       THEN [res |-> BadRequest(errors), rows |-> table, deleted |-> gone]
       ELSE IF id \notin DOMAIN table
            THEN [res |-> NotFound, rows |-> table, deleted |-> gone]
            ELSE AfterFind(RouteOf(r).handler, r, table[id], table, gone)

Sent == {c \in Clients : inflight[c].pc = "done"}

AllAnswered == \A c \in Clients : inflight[c].pc \in {"idle", "done"}

\* the orders in which the answered requests can be run one after another
Orders(S) ==
    {o \in [1..Cardinality(S) -> S] :
        \A i, j \in 1..Cardinality(S) : o[i] = o[j] => i = j}

RECURSIVE TableAfter(_, _)
\* the table after the first i requests of order o, started on `before`
TableAfter(o, i) ==
    IF i = 0 THEN before
    ELSE Sequential(inflight[o[i]].req, TableAfter(o, i - 1), {}).rows

SameAsOrder(o) ==
    /\ TableAfter(o, Cardinality(Sent)) = rows
    /\ \A i \in 1..Cardinality(Sent) :
          Sequential(inflight[o[i]].req, TableAfter(o, i - 1), {}).res
              = inflight[o[i]].res

C11_Serializable ==
    AllAnswered => \E o \in Orders(Sent) : SameAsOrder(o)

IsPatchOfFirstRow(c) ==
    /\ inflight[c].req.method = "PATCH"
    /\ inflight[c].req.id = IntToStr(1)
    /\ inflight[c].res.status = 200

C11_TwoPatchesRestore ==
    (/\ AllAnswered
     /\ Cardinality(Sent) = 2
     /\ \A c \in Sent : IsPatchOfFirstRow(c))
        => /\ 1 \in DOMAIN rows
           /\ rows[1].availability = before[1].availability

\* a save on a row that is no longer in the table
SavesRemoved(c) ==
    /\ inflight[c].pc = "write"
    /\ inflight'[c].pc = "done"
    /\ inflight[c].req.method \in {"PUT", "PATCH"}
    /\ ParseInt(inflight[c].req.id) \notin DOMAIN rows

C11_NoSuccessOnRemoved ==
    \A c \in Clients :
        SavesRemoved(c) =>
            /\ inflight'[c].res.status # 200
            /\ ParseInt(inflight[c].req.id) \notin DOMAIN rows'

\* C11: once every request in flight is answered, the table and the
\* responses are those of the requests run one at a time in some order; two
\* patches of the first row leave its availability as it was; and a save on
\* a row that a delete has removed neither answers 200 nor puts the row back
C11_ConcurrentIsSequential ==
    [][/\ C11_Serializable'
       /\ C11_TwoPatchesRestore'
       /\ C11_NoSuccessOnRemoved]_vars

=============================================================================
